---- MODULE Spec2Model ----
(***************************************************************************)
(* Model of src/line_parser.py: the regular expression that extracts time  *)
(* groups from a line of text, and get_available_times_from_line, which    *)
(* resolves every match into a TimeSlot of 24-hour Time objects.           *)
(*                                                                         *)
(* Text is a sequence of one-character strings.  Time objects live in a    *)
(* heap and are referred to by reference (a heap index, 0 for None),       *)
(* because class Time defines neither __eq__ nor __hash__.                 *)
(***************************************************************************)
EXTENDS Integers, Sequences, FiniteSets, TLC

VARIABLES parts, line, pos, temp, idx, heap, start_time, end_time,
          time_slots, pc, hour, indicator, result

vars == <<parts, line, pos, temp, idx, heap, start_time, end_time,
          time_slots, pc, hour, indicator, result>>

(***************************************************************************)
(* Bounds of the inputs                                                    *)
(***************************************************************************)
MaxHourText == 25

\* The hour of the converter's input ranges over 0..MaxConvHour.
MaxConvHour == 23

(***************************************************************************)
(* Characters                                                              *)
(***************************************************************************)
DigitChars == <<"0", "1", "2", "3", "4", "5", "6", "7", "8", "9">>

IsDigit(c) == \E d \in 1..10 : DigitChars[d] = c

DigitVal(c) == CHOOSE d \in 0..9 : DigitChars[d + 1] = c

\* \s of the pattern
IsSpace(c) == c \in {" ", "\n", "\t"}

\* re.I: letters compare without case
Lower(c) ==
    CASE c = "A" -> "a"
      [] c = "P" -> "p"
      [] c = "M" -> "m"
      [] OTHER -> c

\* The text `lit` occurs in `s` at index i, ignoring case.
LitAt(s, i, lit) ==
    /\ i + Len(lit) - 1 <= Len(s)
    /\ \A k \in 1..Len(lit) : Lower(s[i + k - 1]) = lit[k]

(***************************************************************************)
(* The compiled patterns.  A pattern applied at index i returns the index  *)
(* after the matched text, or 0 when it does not match there.              *)
(***************************************************************************)
\* am|a\.m|a\.m\.  and  pm|p\.m|p\.m\.  in the order the pattern tries them
am_alternatives == << <<"a", "m">>, <<"a", ".", "m">>, <<"a", ".", "m", ".">> >>

pm_alternatives == << <<"p", "m">>, <<"p", ".", "m">>, <<"p", ".", "m", ".">> >>

\* The first alternative of `alts` that matches at i decides the match.
AltEnd(s, i, alts) ==
    LET hits == {k \in 1..Len(alts) : LitAt(s, i, alts[k])}
    IN  IF hits = {} THEN 0
        ELSE LET k == CHOOSE x \in hits : \A y \in hits : x <= y
             IN  i + Len(alts[k])

am_format_regex(ind) == AltEnd(ind, 1, am_alternatives) # 0

pm_format_regex(ind) == AltEnd(ind, 1, pm_alternatives) # 0

twelve_hour_format_regex(ind) ==
    AltEnd(ind, 1, am_alternatives \o pm_alternatives) # 0

RECURSIVE DigitsEnd(_, _)
\* \d+ from index i, where s[i] is a digit: the index after the run
DigitsEnd(s, i) ==
    IF i <= Len(s) /\ IsDigit(s[i]) THEN DigitsEnd(s, i + 1) ELSE i

RECURSIVE SpacesEnd(_, _)
\* \s* from index i
SpacesEnd(s, i) ==
    IF i <= Len(s) /\ IsSpace(s[i]) THEN SpacesEnd(s, i + 1) ELSE i

\* \d+(?:[:]{0,1}\d+)?  Greedy; a shorter alternative is never followed by
\* anything the rest of the pattern accepts (the next character would be a
\* digit or a colon), so the greedy choice is the one the engine returns.
TimeEnd(s, i) ==
    IF ~(i <= Len(s) /\ IsDigit(s[i])) THEN 0
    ELSE LET e == DigitsEnd(s, i)
         IN  IF e + 1 <= Len(s) /\ s[e] = ":" /\ IsDigit(s[e + 1])
             THEN DigitsEnd(s, e + 1)
             ELSE e

\* (?P<SI>...)? and (?P<EI>...)
IndicatorEnd(s, i) == AltEnd(s, i, am_alternatives \o pm_alternatives)

Text(s, i, e) == SubSeq(s, i, e - 1)

\* (?:[-: ] end_time \s* EI)?  at index i: the index after the group, or 0.
\* EI carries no `?` of its own, so the group needs a marker.
EndGroupEnd(s, i) ==
    IF ~(i <= Len(s) /\ s[i] \in {"-", ":", " "}) THEN 0
    ELSE LET te == TimeEnd(s, i + 1)
         IN  IF te = 0 THEN 0 ELSE IndicatorEnd(s, SpacesEnd(s, te))

\* available_time_regex applied at index i.  Absent groups are the empty
\* text: the code reads SI and EI with `or ''` and only tests end_time for
\* truth.
available_time_regex(s, i) ==
    LET se == TimeEnd(s, i)
        ws == SpacesEnd(s, se)
        ie == IndicatorEnd(s, ws)
        si == IF ie = 0 THEN ws ELSE ie
        ge == EndGroupEnd(s, si)
        te == TimeEnd(s, si + 1)
        es == SpacesEnd(s, te)
    IN  IF se = 0 THEN [found |-> FALSE]
        ELSE [found |-> TRUE,
              start_time |-> Text(s, i, se),
              SI |-> IF ie = 0 THEN <<>> ELSE Text(s, ws, ie),
              end_time |-> IF ge = 0 THEN <<>> ELSE Text(s, si + 1, te),
              EI |-> IF ge = 0 THEN <<>> ELSE Text(s, es, ge),
              end |-> IF ge = 0 THEN si ELSE ge]

RECURSIVE finditer(_, _)
\* The next match at or after index i (scanning left to right).
finditer(s, i) ==
    IF i > Len(s) THEN [found |-> FALSE]
    ELSE LET m == available_time_regex(s, i)
         IN  IF m.found THEN m ELSE finditer(s, i + 1)

(***************************************************************************)
(* Conversion                                                              *)
(***************************************************************************)
RECURSIVE int(_)
int(t) ==
    IF t = <<>> THEN 0
    ELSE 10 * int(SubSeq(t, 1, Len(t) - 1)) + DigitVal(t[Len(t)])

ColonAt(t) == CHOOSE k \in 1..Len(t) : t[k] = ":"

get_hours_minutes(t) ==
    IF \E k \in 1..Len(t) : t[k] = ":"
    THEN [hours |-> int(SubSeq(t, 1, ColonAt(t) - 1)),
          minutes |-> int(SubSeq(t, ColonAt(t) + 1, Len(t)))]
    ELSE [hours |-> int(t), minutes |-> 0]

\* get_24_hour_format without the final reduction mod 24
get_24_hour_format_no_wrap(h, ind) ==
    IF h = 12 /\ am_format_regex(ind) THEN 0
    ELSE IF pm_format_regex(ind) THEN h + 12
    ELSE h

get_24_hour_format(h, ind) ==
    LET h2 == IF h = 12 /\ am_format_regex(ind) THEN 0
              ELSE IF pm_format_regex(ind) THEN h + 12
              ELSE h
    IN  h2 % 24

(***************************************************************************)
(* get_available_times_from_line                                           *)
(***************************************************************************)
\* A temp_slot is the tuple the first loop appends:
\* <<start_time, start_indicator, end_time, end_indicator, uses_24_hour_format>>
uses_24_hour_format(si, ei) ==
    ~(twelve_hour_format_regex(si) \/ twelve_hour_format_regex(ei))

\* "Adjust to 24 hours if needed", for the start hour
start_conversion(start_hour, slot) ==
    IF ~slot[5] THEN get_24_hour_format(start_hour, slot[2]) ELSE start_hour

\* The branches on the indicators when there is an end time.  The first
\* `if` stands alone; the chain `if / elif / elif` follows it.
end_resolution(start_hour, end_hour, slot) ==
    LET si == slot[2] # <<>>
        ei == slot[4] # <<>>
        e1 == IF si /\ ei THEN get_24_hour_format(end_hour, slot[2])
              ELSE end_hour
        pm == <<"p", "m">>
        am == <<"a", "m">>
        s3 == get_24_hour_format(start_hour, pm)
    IN  IF slot[5] THEN [start_hour |-> start_hour, end_hour |-> end_hour]
        ELSE IF si /\ ~ei
             THEN [start_hour |-> start_hour,
                   end_hour |-> get_24_hour_format(e1, slot[2])]
        ELSE IF ~si /\ ei
             THEN [start_hour |-> get_24_hour_format(start_hour, slot[4]),
                   end_hour |-> e1]
        ELSE IF ~si /\ ~ei
             THEN [start_hour |-> s3,
                   end_hour |-> IF e1 < s3 \/ e1 = 12
                                THEN get_24_hour_format(e1, am)
                                ELSE get_24_hour_format(e1, pm)]
        ELSE [start_hour |-> start_hour, end_hour |-> e1]

\* The no-end branch without its p.m. default
no_end_start_hour_as_is(start_hour, slot) == start_hour

\* No end time: a start without indicator is taken as p.m.
no_end_start_hour(start_hour, slot) ==
    IF slot[2] = <<>> THEN get_24_hour_format(start_hour, <<"p", "m">>)
    ELSE start_hour

\* One pass of the second loop, up to the construction of the Time objects.
resolve(slot) ==
    LET sm == get_hours_minutes(slot[1])
        s1 == start_conversion(sm.hours, slot)
        em == get_hours_minutes(slot[3])
        r  == end_resolution(s1, em.hours, slot)
    IN  IF slot[3] # <<>>
        THEN [has_end |-> TRUE,
              start |-> [hours |-> r.start_hour, minutes |-> sm.minutes],
              end |-> [hours |-> r.end_hour, minutes |-> em.minutes]]
        ELSE [has_end |-> FALSE,
              start |-> [hours |-> no_end_start_hour(s1, slot),
                         minutes |-> sm.minutes],
              end |-> [hours |-> 0, minutes |-> 0]]

\* TimeSlot.__eq__: the Time objects are compared with ==, and class Time
\* inherits object.__eq__, which is identity of reference.
TimeSlotEq(a, b) ==
    a.start_time = b.start_time /\ a.end_time = b.end_time

\* set.add: an element equal to one already in the set is not added.
SetAdd(S, x) == IF \E y \in S : TimeSlotEq(y, x) THEN S ELSE S \cup {x}

(***************************************************************************)
(* Inputs                                                                  *)
(***************************************************************************)
RECURSIVE Dec(_)
\* The decimal text of a natural number
Dec(n) ==
    IF n < 10 THEN <<DigitChars[n + 1]>>
    ELSE Dec(n \div 10) \o <<DigitChars[(n % 10) + 1]>>

HourTexts == {Dec(n) : n \in 0..MaxHourText}

MinuteTexts == {<<>>, <<":", "3", "0">>}

StartTexts == {h \o m : h \in HourTexts, m \in MinuteTexts}

EndTexts == HourTexts \cup {<<>>}

\* What follows the start digits: nothing, a marker, or a space and a marker
StartIndicators == {<<>>, <<"a", "m">>, <<"p", "m">>, <<" ", "P", ".", "M">>}

EndIndicators == {<<>>, <<"a", "m">>, <<"p", "m">>}

Separators == {<<"-">>, <<":">>, <<" ">>, <<",">>}

Parts == [start : StartTexts, SI : StartIndicators, sep : Separators,
          end : EndTexts, EI : EndIndicators]

NoParts == [start |-> <<>>, SI |-> <<>>, sep |-> <<>>, end |-> <<>>,
            EI |-> <<>>]

Join(p) == p.start \o p.SI \o p.sep \o p.end \o p.EI

Indicators ==
    {<<>>, <<"a", "m">>, <<"a", ".", "m">>, <<"a", ".", "m", ".">>,
     <<"p", "m">>, <<"p", ".", "m">>, <<"p", ".", "m", ".">>,
     <<"A", "M">>, <<"P", "M">>, <<"P", ".", "m", ".">>, <<"A", ".", "M">>}

\* The tuples the second loop can be handed, classified as the first loop
\* classifies them
RawSlots ==
    {<<s, si, e, ei, uses_24_hour_format(si, ei)>> :
        s \in StartTexts, si \in EndIndicators, e \in EndTexts,
        ei \in EndIndicators}

(***************************************************************************)
(* State machine                                                           *)
(***************************************************************************)
Rest ==
    /\ pos = 1
    /\ idx = 1
    /\ heap = <<>>
    /\ start_time = 0
    /\ end_time = 0
    /\ time_slots = {}

Init ==
    /\ parts \in Parts
    /\ line = Join(parts)
    /\ temp = <<>>
    /\ pc = "scan"
    /\ hour = 0 /\ indicator = <<>> /\ result = 0
    /\ Rest

\* The second loop alone, on one tuple
InitResolver ==
    /\ parts = NoParts
    /\ line = <<>>
    /\ temp \in {<<slot>> : slot \in RawSlots}
    /\ pc = "resolve"
    /\ hour = 0 /\ indicator = <<>> /\ result = 0
    /\ Rest

\* get_24_hour_format alone
InitConv ==
    /\ parts = NoParts
    /\ line = <<>>
    /\ temp = <<>>
    /\ pc = "conv"
    /\ hour \in 0..MaxConvHour
    /\ indicator \in Indicators
    /\ result = 0
    /\ Rest

\* first loop: one match of finditer is appended to temp
Match ==
    /\ pc = "scan"
    /\ finditer(line, pos).found
    /\ LET m == finditer(line, pos)
       IN  /\ temp' = Append(temp, <<m.start_time, m.SI, m.end_time, m.EI,
                                     uses_24_hour_format(m.SI, m.EI)>>)
           /\ pos' = m.end
    /\ UNCHANGED <<parts, line, idx, heap, start_time, end_time, time_slots,
                   pc, hour, indicator, result>>

\* first loop: finditer is exhausted
ScanDone ==
    /\ pc = "scan"
    /\ ~finditer(line, pos).found
    /\ pc' = "resolve"
    /\ UNCHANGED <<parts, line, pos, temp, idx, heap, start_time, end_time,
                   time_slots, hour, indicator, result>>

\* second loop: one temp_slot becomes a TimeSlot of fresh Time objects
ResolveSlot ==
    /\ pc = "resolve"
    /\ idx <= Len(temp)
    /\ LET r  == resolve(temp[idx])
           h1 == IF r.has_end THEN Append(heap, r.end) ELSE heap
           h2 == Append(h1, r.start)
       IN  /\ heap' = h2
           /\ end_time' = IF r.has_end THEN Len(h1) ELSE 0
           /\ start_time' = Len(h2)
           /\ time_slots' = SetAdd(time_slots,
                  [start_time |-> Len(h2),
                   end_time |-> IF r.has_end THEN Len(h1) ELSE 0])
    /\ idx' = idx + 1
    /\ UNCHANGED <<parts, line, pos, temp, pc, hour, indicator, result>>

\* return time_slots
Return ==
    /\ pc = "resolve"
    /\ idx > Len(temp)
    /\ pc' = "done"
    /\ UNCHANGED <<parts, line, pos, temp, idx, heap, start_time, end_time,
                   time_slots, hour, indicator, result>>

\* one call of get_24_hour_format
Convert ==
    /\ pc = "conv"
    /\ result' = get_24_hour_format(hour, indicator)
    /\ pc' = "converted"
    /\ UNCHANGED <<parts, line, pos, temp, idx, heap, start_time, end_time,
                   time_slots, hour, indicator>>

Next == Match \/ ScanDone \/ ResolveSlot \/ Return

Spec == Init /\ [][Next]_vars

NextResolver == ResolveSlot \/ Return

SpecResolver == InitResolver /\ [][NextResolver]_vars

NextConv == Convert

SpecConv == InitConv /\ [][NextConv]_vars

(***************************************************************************)
(* Properties                                                              *)
(***************************************************************************)
\* The second loop has run at least once; LastSlot is the temp_slot of its
\* last pass and start_time, end_time are the Time objects that pass made.
Resolved == pc \in {"resolve", "done"} /\ idx > 1

LastSlot == temp[idx - 1]

StartHourIn == get_hours_minutes(LastSlot[1]).hours

StartMinuteIn == get_hours_minutes(LastSlot[1]).minutes

EndHourIn == get_hours_minutes(LastSlot[3]).hours

LowerText(t) == [k \in 1..Len(t) |-> Lower(t[k])]

IsAm(m) == LowerText(m) \in {<<"a", "m">>, <<"a", ".", "m">>, <<"a", ".", "m", ".">>}

IsPm(m) == LowerText(m) \in {<<"p", "m">>, <<"p", ".", "m">>, <<"p", ".", "m", ".">>}

\* The 12-hour conversion as the specification words it
Conv12(h, m) ==
    (IF h = 12 /\ IsAm(m) THEN 0 ELSE IF IsPm(m) THEN h + 12 ELSE h) % 24

SameValue(a, b) ==
    /\ heap[a.start_time] = heap[b.start_time]
    /\ \/ a.end_time = 0 /\ b.end_time = 0
       \/ /\ a.end_time # 0
          /\ b.end_time # 0
          /\ heap[a.end_time] = heap[b.end_time]

\* C1: every Time of every TimeSlot in the returned set, start and end
\* alike, has hours in 0..23.
C1_HoursInRange ==
    \A ts \in time_slots :
        /\ heap[ts.start_time].hours \in 0..23
        /\ ts.end_time # 0 => heap[ts.end_time].hours \in 0..23

\* C2: two TimeSlots of the set that have the same start (hour, minute) and
\* the same end (hour, minute, or both absent) are one element.
C2_DedupByValue ==
    \A a \in time_slots : \A b \in time_slots : SameValue(a, b) => a = b

\* C3: with a start marker and an end marker, the resolved end hour is the
\* 12-hour conversion of the end digits under the end marker.
C3_EndUnderEndMarker ==
    (Resolved /\ LastSlot[3] # <<>> /\ LastSlot[2] # <<>> /\ LastSlot[4] # <<>>)
        => heap[end_time].hours = Conv12(EndHourIn, LastSlot[4])

\* C4: with an end time, no start marker and an end marker, the start hour
\* and the end hour are both converted under the end marker.
C4_BothUnderEndMarker ==
    (Resolved /\ LastSlot[3] # <<>> /\ LastSlot[2] = <<>> /\ LastSlot[4] # <<>>)
        => /\ heap[start_time].hours = Conv12(StartHourIn, LastSlot[4])
           /\ heap[end_time].hours = Conv12(EndHourIn, LastSlot[4])

C6_BareStartIsPm ==
    (Resolved /\ LastSlot[3] = <<>> /\ LastSlot[2] = <<>>)
        => /\ heap[start_time] = [hours |-> (StartHourIn + 12) % 24,
                                  minutes |-> StartMinuteIn]
           /\ end_time = 0
           /\ [start_time |-> start_time, end_time |-> 0] \in time_slots

C6_Witness ==
    /\ pc = "done"
    /\ line = <<"5", ",">>
    /\ LastSlot[3] = <<>> /\ LastSlot[2] = <<>>
    /\ heap[start_time] = [hours |-> 17, minutes |-> 0]
    /\ time_slots = {[start_time |-> start_time, end_time |-> 0]}

\* C7: hour 12 with a pm marker resolves to hour 12, and hour 12 with an am
\* marker resolves to hour 0.
C7_NoonAndMidnight ==
    (Resolved /\ LastSlot[3] = <<>> /\ StartHourIn = 12)
        => /\ IsPm(LastSlot[2]) => heap[start_time].hours = 12
           /\ IsAm(LastSlot[2]) => heap[start_time].hours = 0

\* C8: a start hour in 13..23 of a match without any marker is resolved to
\* itself.
C8_BareHourAbove12 ==
    (Resolved /\ LastSlot[2] = <<>> /\ LastSlot[4] = <<>>
        /\ StartHourIn \in 13..23)
        => heap[start_time].hours = StartHourIn

\* C9: a start group, a separator from '-', ':', ' ' and a second digit
\* group without marker give one match, with the end digits populated and
\* the end marker empty.
C9_EndMarkerOptional ==
    (/\ pc = "done"
     /\ parts.sep \in {<<"-">>, <<":">>, <<" ">>}
     /\ parts.end # <<>>
     /\ parts.EI = <<>>
     /\ parts.sep = <<":">> => parts.SI # <<>>)
        => /\ Len(temp) = 1
           /\ temp[1][1] = parts.start
           /\ temp[1][3] = parts.end
           /\ temp[1][4] = <<>>

\* C10: for every hour h in 0..23, get_24_hour_format gives h with an empty
\* marker, (h + 12) mod 24 with a pm marker, 0 with an am marker and h = 12,
\* and h with an am marker and h other than 12.
C10_ConverterReference ==
    (pc = "converted" /\ hour \in 0..23)
        => result = IF indicator = <<>> THEN hour
                    ELSE IF IsPm(indicator) THEN (hour + 12) % 24
                    ELSE IF hour = 12 THEN 0
                    ELSE hour

C10_Witness ==
    /\ pc = "converted"
    /\ hour = 13
    /\ indicator = <<"P", ".", "m", ".">>
    /\ result = 1

====
